---- MODULE Spec2Model ----
(***************************************************************************)
(* Model of the RoArm-M2 action gate and motion sequencer:                 *)
(*   fsm_controller.py                  the two-state gate                 *)
(*   roarm_m2/actions/control_action.py ActionController                   *)
(*   roarm_m2/actions/{pickup,place,drop}.py   the motion sequences        *)
(*   roarm-m2/roarm_helper.py           RoArmController (send, feedback,   *)
(*                                      wait_for_motion_completion)        *)
(* of the block detector, of the capture that feeds pick, and of the       *)
(* calibrators:                                                            *)
(*   detect_jenga.py                    JengaBlockDetector                 *)
(*   colour_coordinates.py              ColourCoordinates.capture          *)
(*   calibrate.py, calibration/arm_calibrate.py   the two calibrators      *)
(* and of two callers of one ActionController (homepage.py).               *)
(*                                                                         *)
(* Encodings.  Positions and angles that the code holds as floats are      *)
(* integers here: feedback values and the motion tolerance in units of     *)
(* 0.01, gripper angles in units of 0.01 rad, coordinates in mm.  Time is   *)
(* counted in ticks, TimeoutTicks of them making the 15 seconds of the     *)
(* wait's timeout; one loop iteration of the                               *)
(* completion wait (request + sleep) takes 0..MaxAdvance ticks, and the    *)
(* elapsed time saturates at MaxElapsed, above every value the code        *)
(* compares it with.  Feedback responses are drawn from dictionaries over  *)
(* the keys in SampleAxes, two of the seven monitored axes, and OddDicts,   *)
(* a few objects with other keys or values.  The speed argument of the moves is left out.*)
(***************************************************************************)
EXTENDS Integers, Sequences, FiniteSets, TLC

\* ------------------------------------------------------------------ bounds
MaxVal == 2
MaxAdvance == 1
TimeoutTicks == 2

\* ------------------------------------------------------- program constants
MotionTolerance == 2
StabilityRequired == 3
GripperJoint == 4
PickOpenAngle == 157
PickCloseAngle == 314
PlaceOpenAngle == 314
DropOpenAngle == 314
PlaceT == 314
ApproachZDefault == 150
GraspZDefault == 50
ApproachOffset == 10
GraspOffset == 5
PlaceZ == 0 - 120

MaxElapsed == TimeoutTicks + MaxAdvance + 1

Min(a, b) == IF a <= b THEN a ELSE b
Abs(a) == IF a < 0 THEN 0 - a ELSE a
SetMax(S) == CHOOSE m \in S : \A n \in S : n <= m

\* A value that is not a str (None, a number): the code tests isinstance(s, str).
NotAString == "<not a str>"
\* A Python None passed for an optional argument.
NoneArg == "<None>"
ValueError == "<ValueError>"

\* ------------------------------------------------------- fsm_controller.py
ValidActions == {"pick", "drop", "place"}

\* str.strip().lower() on the action names the model feeds in.
StripLower(a) ==
  CASE a = " Pick " -> "pick"
    [] a = "DROP" -> "drop"
    [] a = "Place" -> "place"
    [] a = "Grab " -> "grab"
    [] OTHER -> a

\* str.strip().lower().replace(" ", "_") on the state strings the model feeds in.
StripLowerUnderscore(s) ==
  CASE s = "Has Block" -> "has_block"
    [] s = " Empty " -> "empty"
    [] s = "does not have block" -> "does_not_have_block"
    [] OTHER -> s

NormalizeState(s) ==
  IF s = NotAString THEN ValueError
  ELSE LET t == StripLowerUnderscore(s) IN
    IF t \in {"have_block", "haveblock", "has_block", "hasblock"} THEN "have_block"
    ELSE IF t \in {"doesnot_have_block", "doesnot_haveblock", "does_not_have_block"}
      THEN "doesnot_have_block"
    ELSE IF t \in {"doesnot_have_block", "does_not_have_block", "does not have block",
                   "doesnot have block"}
      THEN "doesnot_have_block"
    ELSE IF t \in {"empty", "no_block", "no-block", "no_block_present"}
      THEN "doesnot_have_block"
    ELSE ValueError

\* The stub actions the gate calls; they touch no hardware.
StubPick == "picked"
StubDrop == "dropped"
StubPlace == "placed"

FsmRaise == [kind |-> "ValueError", state |-> "", msg |-> ""]
FsmNone == [kind |-> "None", state |-> "", msg |-> ""]
FsmTuple(s, m) == [kind |-> "tuple", state |-> s, msg |-> m]

\* The membership test left out.
IsValidActionAny(action) == TRUE

IsValidAction(action) == action \in ValidActions

\* The guard of the pick branch left out: pick admitted while holding.
PickBranchUngated(state) == FsmTuple("have_block", "pick: " \o StubPick)

PickBranch(state) ==
  IF state = "doesnot_have_block"
  THEN FsmTuple("have_block", "pick: " \o StubPick)
  ELSE FsmTuple(state, "no-op: already have block")

\* drop.py's docstring reading ("or for full reset"): drop admitted from any state.
DropBranchUngated(state) == FsmTuple("doesnot_have_block", "drop: " \o StubDrop)

DropBranch(state) ==
  IF state = "have_block"
  THEN FsmTuple("doesnot_have_block", "drop: " \o StubDrop)
  ELSE FsmTuple(state, "no-op: no block to drop")

PlaceBranch(state) ==
  IF state = "have_block"
  THEN FsmTuple("doesnot_have_block", "place: " \o StubPlace)
  ELSE FsmTuple(state, "no-op: no block to place")

FsmController(action_name, current_state) ==
  IF action_name = NotAString THEN FsmRaise
  ELSE LET action == StripLower(action_name) IN
    IF ~IsValidAction(action) THEN FsmRaise
    ELSE LET state == NormalizeState(current_state) IN
      IF state = ValueError THEN FsmRaise
      ELSE IF action = "pick" THEN PickBranch(state)
      ELSE IF action = "drop" THEN DropBranch(state)
      ELSE IF action = "place" THEN PlaceBranch(state)
      ELSE FsmNone


\* ------------------------------------------- roarm-m2/roarm_helper.py
\* The keys wait_for_motion_completion keeps from a feedback response.
MonitoredAxes == {"b", "s", "e", "h", "x", "y", "z"}
\* The keys of the feedback responses the model draws.
SampleAxes == {"b", "x"}
\* A value of a feedback field that is no int or float (a string, a list).
NonNumeric == 0 - 1
IsNumber(v) == v >= 0

EmptyDict == [k \in {} |-> 0]
DictsOver(K, V) == UNION {[S -> V] : S \in SUBSET K}

\* What _send_command returns for the feedback query T:105:
\*   "none"  None: the request failed (or the HTTP status was an error)
\*   "list"  a non-empty JSON value that is no object
\*   "dict"  a JSON object (the empty one included), or the raw-text fallback
RespNone == [kind |-> "none", items |-> EmptyDict]
RespList == [kind |-> "list", items |-> EmptyDict]
RespDict(f) == [kind |-> "dict", items |-> f]

\* Objects with an unmonitored key, or a monitored key whose value is no number;
\* [status |-> 0] stands for the raw-text fallback {"status": "ok", "raw": ...}.
OddDicts ==
  { [status |-> 0],
    [T |-> 1, b |-> 0],
    [b |-> NonNumeric],
    [b |-> NonNumeric, x |-> 1] }

FeedbackResponses ==
  {RespNone, RespList}
    \cup {RespDict(f) : f \in DictsOver(SampleAxes, 0..MaxVal)}
    \cup {RespDict(f) : f \in OddDicts}

\* The responses drawn while whole actions are explored: one of each kind, and
\* an axis at rest, moving by less than the tolerance and by the tolerance.
SequenceResponses ==
  {RespNone, RespList, RespDict([status |-> 0])}
    \cup {RespDict([b |-> v]) : v \in 0..MaxVal}

\* The test of line 70 as `if current_status == {}`: None is not caught.
IsFalsyEmptyOnly(resp) == resp.kind = "dict" /\ DOMAIN resp.items = {}

\* `if not current_status`: None and the empty containers are falsy.
IsFalsy(resp) == resp.kind = "none" \/ (resp.kind = "dict" /\ DOMAIN resp.items = {})

\* The dict comprehension of line 75.
CurrentValues(resp) ==
  LET keep == {k \in DOMAIN resp.items : k \in MonitoredAxes /\ IsNumber(resp.items[k])}
  IN [k \in keep |-> resp.items[k]]

\* last_values.get(key, val)
DictGet(d, k, default) == IF k \in DOMAIN d THEN d[k] ELSE default

\* Lines 83-88: the largest |val - prev_val| over the keys of current_values.
MaxDelta(current_values, last_values) ==
  SetMax({0} \cup {Abs(current_values[k] - DictGet(last_values, k, current_values[k]))
                    : k \in DOMAIN current_values})

\* Lines 91-94.
NextStableCount(stable_count, max_delta) ==
  IF max_delta < MotionTolerance THEN stable_count + 1 ELSE 0

\* One comparison short of stability_required.
IsStableEarly(stable_count) == stable_count >= StabilityRequired - 1

\* Line 97.
IsStable(stable_count) == stable_count >= StabilityRequired

\* The wait without its safety timeout.
TimedOutNever(elapsed_now) == FALSE

\* Line 102: time.time() - start_time > 15, the 15 seconds being TimeoutTicks ticks.
TimedOut(elapsed_now) == elapsed_now > TimeoutTicks

\* ------------------------------------- roarm_m2/actions: the sequences
Torque(enable) == [op |-> "set_torque", args |-> <<IF enable THEN 1 ELSE 0>>]
Joint(joint_id, angle) == [op |-> "set_joint", args |-> <<joint_id, angle>>]
Cartesian(x, y, z, t) == [op |-> "move_cartesian", args |-> <<x, y, z, t>>]
Prim(c, m) == [cmd |-> c, fail |-> m]

PickHome == <<200, 0, 150>>

\* The pick sequence without its vertical safety lift.
PickupPlanNoLift(coord) ==
  LET x == coord[1]
      y == coord[2]
      hasz == Len(coord) >= 3
      approach_z == IF hasz THEN coord[3] + ApproachOffset ELSE ApproachZDefault
      grasp_z == IF hasz THEN coord[3] + GraspOffset ELSE GraspZDefault
  IN << Prim(Joint(GripperJoint, PickOpenAngle), "Failed to open gripper"),
        Prim(Cartesian(x, y, approach_z, PickOpenAngle), "Failed approach move"),
        Prim(Cartesian(x, y, grasp_z, PickOpenAngle), "Failed to lower arm"),
        Prim(Joint(GripperJoint, PickCloseAngle), "Failed to close gripper"),
        Prim(Cartesian(PickHome[1], PickHome[2], PickHome[3], PickCloseAngle),
             "Failed to return home") >>

\* pickup.py lines 93-160, for a coordinate of two or three components.
PickupPlan(coord) ==
  LET x == coord[1]
      y == coord[2]
      hasz == Len(coord) >= 3
      approach_z == IF hasz THEN coord[3] + ApproachOffset ELSE ApproachZDefault
      grasp_z == IF hasz THEN coord[3] + GraspOffset ELSE GraspZDefault
  IN << Prim(Joint(GripperJoint, PickOpenAngle), "Failed to open gripper"),
        Prim(Cartesian(x, y, approach_z, PickOpenAngle), "Failed approach move"),
        Prim(Cartesian(x, y, grasp_z, PickOpenAngle), "Failed to lower arm"),
        Prim(Joint(GripperJoint, PickCloseAngle), "Failed to close gripper"),
        Prim(Cartesian(x, y, approach_z, PickCloseAngle), "Failed to perform safety lift"),
        Prim(Cartesian(PickHome[1], PickHome[2], PickHome[3], PickCloseAngle),
             "Failed to return home") >>

\* place moving to the middle position with the gripper angle pick opens with.
PlacePlanOpenHand ==
  << Prim(Cartesian(200, 0, 150, PickOpenAngle), "Failed to move to middle position"),
     Prim(Cartesian(200, 0, PlaceZ, PlaceT), "Failed to lower arm"),
     Prim(Joint(GripperJoint, PlaceOpenAngle), "Failed to open gripper"),
     Prim(Cartesian(200, 0, 150, PlaceOpenAngle), "Failed to return to home") >>

\* place.py lines 60-90.
PlacePlan ==
  << Prim(Cartesian(200, 0, 150, PlaceT), "Failed to move to middle position"),
     Prim(Cartesian(200, 0, PlaceZ, PlaceT), "Failed to lower arm"),
     Prim(Joint(GripperJoint, PlaceOpenAngle), "Failed to open gripper"),
     Prim(Cartesian(200, 0, 150, PlaceOpenAngle), "Failed to return to home") >>

\* drop.py lines 47-61.
DropPlan ==
  << Prim(Joint(GripperJoint, DropOpenAngle), "Failed to open gripper"),
     Prim(Cartesian(40, 1, 53, DropOpenAngle), "Failed to move to home") >>

\* A move issued with wait=False.
WaitFlagOff(action, k) == FALSE

\* The wait= argument of the move call that issues primitive k of a sequence.
WaitFlag(action, k) == TRUE


\* ------------------------------- roarm_m2/actions/control_action.py: state
VARIABLES
  current_state,  \* ActionController.current_state, as stored (never normalised)
  pc,             \* "idle", "seq" (about to issue primitive `step`), "wait"
  act,            \* action_lower of the call in progress
  new_state,      \* new_state returned by fsm_controller for the call in progress
  plan,           \* the primitives of the sequence in progress
  step,           \* index in plan of the primitive issued next / being waited for
  cmds,           \* hardware commands issued by the latest call, in order
  ret,            \* what the latest public call gave its caller
  op,             \* the public operation called last
  stable_count,   \* wait_for_motion_completion: stable_count
  last_values,    \* wait_for_motion_completion: last_values
  elapsed,        \* time.time() - start_time at the latest loop iteration
  wait_end,       \* how the completion wait that returned last ended
  quiet_run,      \* consecutive comparisons of this wait in which no axis moved
  waits_done,     \* completion waits of this call that have returned
  comm_fail,      \* a move command or feedback poll of this call failed
  last_done,      \* the action executed successfully last ("off": not recorded)
  other,          \* the frame of a second caller's execute_action, while it is not running
  det,            \* JengaBlockDetector and the detection pass in progress
  cal             \* the calibrator and the calibration file

ctlVars == <<current_state, ret, op>>
seqVars == <<pc, act, new_state, plan, step, cmds, waits_done, comm_fail>>
histVars == <<last_done>>
auxVars == <<other, det, cal>>
waitVars == <<stable_count, last_values, elapsed, wait_end, quiet_run>>
vars == <<ctlVars, seqVars, waitVars, histVars, auxVars>>

CanonicalStates == {"doesnot_have_block", "have_block"}
\* Values a caller may pass as initial_state / new_state (both are stored as given).
StateInputs ==
  {"doesnot_have_block", "have_block", "Has Block", " Empty ", "holding", NotAString}
ActionInputs == {"pick", "place", "drop", " Pick ", "DROP", "Grab ", NotAString}
ColorInputs == {NoneArg, "red", "blue"}

TargetsNone == [kind |-> "None", items |-> EmptyDict]
TargetsList == [kind |-> "list", items |-> EmptyDict]
TargetsDict(f) == [kind |-> "dict", items |-> f]
\* pick is called with targets and a colour, place and drop without (as the
\* callers in homepage.py and tests/test_picknplace.py do).
TakesTargets(action) == action # NotAString /\ StripLower(action) = "pick"

TargetInputs ==
  { TargetsNone, TargetsList, TargetsDict(EmptyDict),
    TargetsDict([red |-> <<>>]),
    TargetsDict([red |-> << <<200>> >>]),
    TargetsDict([red |-> << <<200, 0>> >>]),
    TargetsDict([red |-> << <<200, 0, 0 - 120>>, <<150, 40, 0 - 120>> >>]) }

NoRet == [outcome |-> "none", success |-> FALSE, kind |-> "", msg |-> ""]
Raised(exc) == [outcome |-> "raised", success |-> FALSE, kind |-> exc, msg |-> ""]
Returned(ok, kind, msg) == [outcome |-> "returned", success |-> ok, kind |-> kind, msg |-> msg]
Answer(v) == [outcome |-> "returned", success |-> TRUE, kind |-> "value", msg |-> v]

\* The rejection test left out.
HasNoOpNever(msg) == FALSE

\* `"no-op" in fsm_msg` over the messages fsm_controller builds.
HasNoOp(msg) ==
  msg \in {"no-op: already have block", "no-op: no block to drop",
           "no-op: no block to place"}

Enter(p, r) == [enter |-> TRUE, plan |-> p, new_state |-> r.state, ret |-> NoRet]
Leave(rt) == [enter |-> FALSE, plan |-> <<>>, new_state |-> "", ret |-> rt]
ExecFailed(msg) == Leave(Returned(FALSE, "Action execution failed", msg))

\* pickup.py lines 62-91: input checks, then the controller is constructed.
Pickup(targets, color, r, loads) ==
  IF targets.kind # "dict" \/ DOMAIN targets.items = {}
    THEN ExecFailed("Targets must be a non-empty dict")
  ELSE IF color \notin DOMAIN targets.items
    THEN ExecFailed("Color not found in targets")
  ELSE IF targets.items[color] = <<>>
    THEN ExecFailed("No coordinates found for color")
  ELSE IF Len(targets.items[color][1]) < 2
    THEN ExecFailed("Invalid coordinate")
  ELSE IF ~loads
    THEN ExecFailed("Failed to initialize arm")
  ELSE Enter(PickupPlan(targets.items[color][1]), r)

\* _perform_pick leaving a missing colour to pickup, which takes the first key.
PerformPickFirstColour(targets, color, r, loads) ==
  IF targets.kind = "None"
    THEN ExecFailed("No targets dictionary provided for pick action")
  ELSE IF color = NoneArg /\ targets.kind = "dict" /\ DOMAIN targets.items # {}
    THEN Pickup(targets, CHOOSE k \in DOMAIN targets.items : TRUE, r, loads)
  ELSE Pickup(targets, color, r, loads)

\* control_action.py lines 136-166.
PerformPick(targets, color, r, loads) ==
  IF targets.kind = "None"
    THEN ExecFailed("No targets dictionary provided for pick action")
  ELSE IF color = NoneArg
    THEN ExecFailed("No color specified for pick action")
  ELSE Pickup(targets, color, r, loads)

\* control_action.py lines 168-184 with place.py lines 50-58.
PerformPlace(r, loads) ==
  IF ~loads THEN ExecFailed("Failed to initialize arm") ELSE Enter(PlacePlan, r)

\* control_action.py lines 186-202 with drop.py lines 37-45.
PerformDrop(r, loads) ==
  IF ~loads THEN ExecFailed("Failed to initialize arm") ELSE Enter(DropPlan, r)

\* control_action.py lines 103-126: the gate, then the dispatch.
Admit(action, state, targets, color, loads) ==
  IF action = NotAString THEN Leave(Raised("AttributeError"))
  ELSE LET action_lower == StripLower(action)
           r == FsmController(action_lower, state)
       IN IF r.kind = "ValueError"
            THEN Leave(Returned(FALSE, "FSM validation error", ""))
          ELSE IF r.kind = "None"
            THEN Leave(Raised("TypeError"))
          ELSE IF HasNoOp(r.msg)
            THEN Leave(Returned(FALSE, "Action rejected by FSM", r.msg))
          ELSE IF action_lower = "pick" THEN PerformPick(targets, color, r, loads)
          ELSE IF action_lower = "place" THEN PerformPlace(r, loads)
          ELSE IF action_lower = "drop" THEN PerformDrop(r, loads)
          ELSE Leave(Returned(FALSE, "Unknown action", ""))

\* The transition committed whatever the sequence reported.
CommitStateAlways(success, state, fsm_state) == fsm_state

\* control_action.py lines 128-134.
CommitState(success, state, fsm_state) == IF success THEN fsm_state ELSE state

\* The frame of an execute_action call that has not started or has returned.
IdleFrame ==
  [pc |-> "idle", act |-> "", new_state |-> "", plan |-> <<>>, step |-> 0,
   ret |-> NoRet, op |-> "__init__", stable_count |-> 0, last_values |-> EmptyDict,
   elapsed |-> 0, wait_end |-> "none", quiet_run |-> 0, waits_done |-> 0,
   comm_fail |-> FALSE]

\* A Python None where a number is expected (focal_length, fx).
NoNumber == 0 - 1
\* A point that is None, and the local `solidity` before its first assignment.
NoPoint == [kind |-> "None", z |-> <<0, 1>>]
Unbound == <<0, 0>>
NoRect ==
  [width |-> <<0, 1>>, height |-> <<0, 1>>, angle |-> 0,
   off_major |-> <<0, 1>>, off_minor |-> <<0, 1>>]

\* No detector constructed: pc is "off", then "idle" between detection passes,
\* "loop" inside detect_blocks and "raised" when a pass ended in an exception.
\* n counts the contours of the pass; rect_n is the one rect_info belongs to.
\* axis and direction are the long-axis vector of a rectangle before and after
\* its sign is resolved, <<0, 0>> while none has been computed.  coordinates
\* is ColourCoordinates._coordinates, the points of the map (the colour keys
\* are left out), and pc is "captured" once capture has built it.
DetOff ==
  [pc |-> "off", focal_length |-> NoNumber, fx |-> NoNumber,
   homography_matrix |-> "None", n |-> 0, rect_n |-> 0, rect_info |-> NoRect,
   rect_infos |-> <<>>,
   solidity |-> Unbound, detected_blocks |-> <<>>, exc |-> "",
   axis |-> <<0, 0>>, direction |-> <<0, 0>>, coordinates |-> <<>>]

\* No calibrator constructed.  `file` is what the save path holds, `file_before`
\* what it held when the latest run started.
CalOff ==
  [pc |-> "off", who |-> "", ids_none |-> TRUE, ids |-> <<>>, matrix |-> "None",
   printed |-> "", ret |-> "", saved |-> FALSE, file |-> "absent",
   file_before |-> "absent"]

\* No second caller, no detector, no calibrator.
AuxIdle == other = IdleFrame /\ det = DetOff /\ cal = CalOff

\* ActionController.__init__ (lines 54-62): initial_state is stored as given.
Constructed(initial_state) ==
  /\ current_state = initial_state
  /\ pc = "idle"
  /\ act = ""
  /\ new_state = ""
  /\ plan = <<>>
  /\ step = 0
  /\ cmds = <<>>
  /\ ret = NoRet
  /\ op = "__init__"
  /\ stable_count = 0
  /\ last_values = EmptyDict
  /\ elapsed = 0
  /\ wait_end = "none"
  /\ quiet_run = 0
  /\ waits_done = 0
  /\ comm_fail = FALSE

Init ==
  /\ \E s \in StateInputs : Constructed(s)
  /\ last_done = "off"
  /\ AuxIdle

\* execute_action up to the first move: the gate, the input checks, the
\* construction of the arm controller and set_torque(True).
ExecuteAction(action, targets, color, loads) ==
  /\ pc = "idle"
  /\ op' = "execute_action"
  /\ LET a == Admit(action, current_state, targets, color, loads) IN
       /\ ret' = a.ret
       /\ act' = IF action = NotAString THEN "" ELSE StripLower(action)
       /\ new_state' = a.new_state
       /\ plan' = a.plan
       /\ pc' = IF a.enter THEN "seq" ELSE "idle"
       /\ step' = IF a.enter THEN 1 ELSE 0
       /\ cmds' = IF a.enter THEN <<Torque(TRUE)>> ELSE <<>>
  /\ waits_done' = 0
  /\ comm_fail' = FALSE
  /\ wait_end' = "none"
  /\ quiet_run' = 0
  /\ UNCHANGED <<current_state, stable_count, last_values, elapsed, last_done, auxVars>>

\* The sequence ends: pickup/place/drop return (success, msg) and
\* execute_action commits the transition or reports the failure.
SequenceReturns(success, msg) ==
  /\ pc' = "idle"
  /\ current_state' = CommitState(success, current_state, new_state)
  /\ ret' = IF success THEN Returned(TRUE, "ok", msg)
            ELSE Returned(FALSE, "Action execution failed", msg)
  /\ new_state' = ""
  /\ plan' = <<>>
  /\ step' = 0
  /\ wait_end' = "none"
  /\ quiet_run' = 0
  /\ waits_done' = 0
  /\ last_done' = IF success /\ last_done # "off"
                  THEN (IF act = "pick" THEN "pick" ELSE "release")
                  ELSE last_done
  /\ UNCHANGED <<act, op, auxVars>>

SuccessMsg(action) ==
  CASE action = "pick" -> "Picked and returned to home"
    [] action = "place" -> "Object placed successfully"
    [] OTHER -> "Dropped and moved to home"

\* The move call of primitive `step` has returned normally, its completion
\* wait (if any) having ended `how` after `quiet` quiet comparisons.
PrimitiveDone(how, quiet, waited) ==
  IF step = Len(plan)
  THEN SequenceReturns(TRUE, SuccessMsg(act))
  ELSE /\ pc' = "seq"
       /\ step' = step + 1
       /\ wait_end' = how
       /\ quiet_run' = quiet
       /\ waits_done' = waits_done + waited
       /\ UNCHANGED <<current_state, ret, op, act, new_state, plan, last_done, auxVars>>

\* set_joint / move_cartesian: the command is sent, its acknowledgement
\* (None when the request failed) is dropped, and with wait=True the
\* completion wait starts.
IssuePrimitive(sent) ==
  /\ pc = "seq"
  /\ cmds' = Append(cmds, plan[step].cmd)
  /\ comm_fail' = (comm_fail \/ ~sent)
  /\ UNCHANGED <<stable_count, last_values, elapsed>>
  /\ IF WaitFlag(act, step)
     THEN /\ pc' = "wait"
          /\ wait_end' = "none"
          /\ quiet_run' = 0
          /\ UNCHANGED <<current_state, ret, op, act, new_state, plan, step, waits_done,
                         last_done, auxVars>>
     ELSE PrimitiveDone("none", 0, 0)

\* The locals of wait_for_motion_completion go with its frame.
WaitFrameGone ==
  /\ stable_count' = 0
  /\ last_values' = EmptyDict
  /\ elapsed' = 0

\* The wait returns to the move call, which returns to the sequence.
WaitReturns(how, quiet) ==
  /\ WaitFrameGone
  /\ PrimitiveDone(how, quiet, 1)

\* Whether some axis reported by both polls changed by the tolerance or more.
Moved(current_values, previous_values) ==
  \E k \in DOMAIN current_values \cap DOMAIN previous_values :
     Abs(current_values[k] - previous_values[k]) >= MotionTolerance

\* One iteration of the loop of wait_for_motion_completion: a feedback poll
\* answered by resp, d ticks after the previous iteration.
Poll(resp, d) ==
  /\ pc = "wait"
  /\ cmds' = cmds
  /\ LET now == Min(elapsed + d, MaxElapsed) IN
     IF IsFalsy(resp) THEN
       /\ comm_fail' = (comm_fail \/ resp.kind = "none")
       /\ WaitReturns("commfail", quiet_run)
     ELSE IF resp.kind # "dict" THEN
       \* current_status.items() raises; the sequence's except clause returns
       /\ comm_fail' = comm_fail
       /\ WaitFrameGone
       /\ SequenceReturns(FALSE, plan[step].fail)
     ELSE LET current_values == CurrentValues(resp) IN
       IF DOMAIN last_values = {} THEN
         /\ last_values' = current_values
         /\ elapsed' = now
         /\ UNCHANGED <<stable_count, wait_end, quiet_run, waits_done, comm_fail>>
         /\ UNCHANGED <<current_state, ret, op, pc, act, new_state, plan, step, last_done, auxVars>>
       ELSE LET count == NextStableCount(stable_count, MaxDelta(current_values, last_values))
            quiet == IF Moved(current_values, last_values) THEN 0 ELSE quiet_run + 1
         IN
         /\ comm_fail' = comm_fail
         /\ IF IsStable(count) THEN WaitReturns("stable", quiet)
            ELSE IF TimedOut(now) THEN WaitReturns("timeout", quiet)
            ELSE /\ stable_count' = count
                 /\ last_values' = current_values
                 /\ elapsed' = now
                 /\ quiet_run' = quiet
                 /\ UNCHANGED <<wait_end, waits_done>>
                 /\ UNCHANGED <<current_state, ret, op, pc, act, new_state, plan, step, last_done, auxVars>>

\* control_action.py lines 212-221.
ResetState(s) ==
  /\ pc = "idle"
  /\ current_state' = s
  /\ op' = "reset_state"
  /\ UNCHANGED <<ret, seqVars, waitVars, histVars, auxVars>>

\* control_action.py lines 204-210.
GetCurrentState ==
  /\ pc = "idle"
  /\ ret' = Answer(current_state)
  /\ op' = "get_current_state"
  /\ UNCHANGED <<current_state, seqVars, waitVars, histVars, auxVars>>

\* is_holding_block storing the normalised state as it answers.
IsHoldingBlockNormalising ==
  /\ pc = "idle"
  /\ ret' = Answer(IF NormalizeState(current_state) = "have_block" THEN "True" ELSE "False")
  /\ op' = "is_holding_block"
  /\ current_state' = IF NormalizeState(current_state) = ValueError
                      THEN current_state ELSE NormalizeState(current_state)
  /\ UNCHANGED <<seqVars, waitVars, histVars, auxVars>>

\* control_action.py lines 223-229.
IsHoldingBlock ==
  /\ pc = "idle"
  /\ ret' = Answer(IF current_state = "have_block" THEN "True" ELSE "False")
  /\ op' = "is_holding_block"
  /\ UNCHANGED <<current_state, seqVars, waitVars, histVars, auxVars>>

Next ==
  \/ \E a \in ActionInputs, l \in BOOLEAN :
       \E t \in IF TakesTargets(a) THEN TargetInputs ELSE {TargetsNone},
          c \in IF TakesTargets(a) THEN ColorInputs ELSE {NoneArg} :
         ExecuteAction(a, t, c, l)
  \/ \E sent \in BOOLEAN : IssuePrimitive(sent)
  \/ \E resp \in SequenceResponses, d \in 0..MaxAdvance : Poll(resp, d)
  \/ \E s \in StateInputs : ResetState(s)
  \/ GetCurrentState
  \/ IsHoldingBlock

Spec == Init /\ [][Next]_vars

\* A drop admitted from have_block, its controller constructed and the torque
\* enabled: the completion waits of its two moves, over every response.
InitWait ==
  /\ current_state = "have_block"
  /\ pc = "seq"
  /\ act = "drop"
  /\ new_state = "doesnot_have_block"
  /\ plan = DropPlan
  /\ step = 1
  /\ cmds = <<Torque(TRUE)>>
  /\ ret = NoRet
  /\ op = "execute_action"
  /\ stable_count = 0
  /\ last_values = EmptyDict
  /\ elapsed = 0
  /\ wait_end = "none"
  /\ quiet_run = 0
  /\ waits_done = 0
  /\ comm_fail = FALSE
  /\ last_done = "off"
  /\ AuxIdle

\* A controller constructed with the default initial_state and driven through
\* execute_action alone; the successful actions are recorded in last_done.
InitFresh ==
  /\ Constructed("doesnot_have_block")
  /\ last_done = "none"
  /\ AuxIdle

NextExecute ==
  \/ \E a \in ActionInputs, l \in BOOLEAN :
       \E t \in IF TakesTargets(a) THEN TargetInputs ELSE {TargetsNone},
          c \in IF TakesTargets(a) THEN ColorInputs ELSE {NoneArg} :
         ExecuteAction(a, t, c, l)
  \/ \E sent \in BOOLEAN : IssuePrimitive(sent)
  \/ \E resp \in SequenceResponses, d \in 0..MaxAdvance : Poll(resp, d)

SpecFresh == InitFresh /\ [][NextExecute]_vars

NextWait ==
  \/ \E sent \in BOOLEAN : IssuePrimitive(sent)
  \/ \E resp \in FeedbackResponses, d \in 0..MaxAdvance : Poll(resp, d)

SpecWait == InitWait /\ [][NextWait]_vars


\* ------------------------------------------- two callers of one controller
\* execute_action takes no lock and homepage.py hands process_chat to the web
\* framework's worker threads, so a second call can run while the first is
\* blocked in a request or a sleep.  The frame of the call that is not running
\* is kept in `other`; current_state and the arm (cmds) are shared.
RunningFrame ==
  [pc |-> pc, act |-> act, new_state |-> new_state, plan |-> plan, step |-> step,
   ret |-> ret, op |-> op, stable_count |-> stable_count, last_values |-> last_values,
   elapsed |-> elapsed, wait_end |-> wait_end, quiet_run |-> quiet_run,
   waits_done |-> waits_done, comm_fail |-> comm_fail]

\* The interpreter suspends the running caller and resumes the other one.
ContextSwitch ==
  /\ other' = RunningFrame
  /\ pc' = other.pc
  /\ act' = other.act
  /\ new_state' = other.new_state
  /\ plan' = other.plan
  /\ step' = other.step
  /\ ret' = other.ret
  /\ op' = other.op
  /\ stable_count' = other.stable_count
  /\ last_values' = other.last_values
  /\ elapsed' = other.elapsed
  /\ wait_end' = other.wait_end
  /\ quiet_run' = other.quiet_run
  /\ waits_done' = other.waits_done
  /\ comm_fail' = other.comm_fail
  /\ UNCHANGED <<current_state, cmds, last_done, det, cal>>

\* What process_chat passes: a known action, and for pick the detected targets.
CallerActions == {"pick", "place", "drop"}
CallerTargets == TargetsDict([red |-> << <<200, 0, 0 - 120>> >>])
\* The arm answers with a position at rest, or not at all.
CallerResponses == {RespNone, RespDict([b |-> 0])}

InitCallers ==
  /\ Constructed("doesnot_have_block")
  /\ last_done = "off"
  /\ AuxIdle

NextCallers ==
  \/ \E a \in CallerActions :
       ExecuteAction(a, IF a = "pick" THEN CallerTargets ELSE TargetsNone,
                     IF a = "pick" THEN "red" ELSE NoneArg, TRUE)
  \/ IssuePrimitive(TRUE)
  \/ \E resp \in CallerResponses : Poll(resp, 0)
  \/ ContextSwitch

SpecCallers == InitCallers /\ [][NextCallers]_vars


\* --------------------------------------------------------- detect_jenga.py
\* Lengths are pixels and the code's floats are exact rationals <<num, den>>
\* with den > 0; on the rectangles of RawSizes the float comparisons and
\* roundings of the code give what the exact ones give.
RealBlockLength == 7
SplitTolerancePct == 30
MaxSplitPerAxis == 8
MinArea == 500
MinSolidityPct == 60
MaxAspect == 6
\* A focal length in pixels, as the camera's intrinsics give it.
FocalPx == 600

\* real_block_short_sides, in tenths of a cm: (2.5, 1.5).
RealBlockShortSides == <<25, 15>>
\* The lower bound 1.2 of the aspect filter.
MinAspect == <<12, 10>>

RatLess(a, b) == a[1] * b[2] < b[1] * a[2]
RatEq(a, b) == a[1] * b[2] = b[1] * a[2]
RatLeq(a, b) == a[1] * b[2] <= b[1] * a[2]
RatDiv(a, b) == <<a[1] * b[2], a[2] * b[1]>>
RatAbsDiff(a, b) == <<Abs(a[1] * b[2] - b[1] * a[2]), a[2] * b[2]>>
RatTimesPct(a, pct) == <<a[1] * pct, a[2] * 100>>

\* Python's round() of a positive rational: to the nearest integer, ties to even.
Round(q) ==
  LET whole == q[1] \div q[2]
      twice == 2 * (q[1] % q[2])
  IN IF twice < q[2] THEN whole
     ELSE IF twice > q[2] THEN whole + 1
     ELSE IF whole % 2 = 0 THEN whole ELSE whole + 1

\* The split count without its cap.
ClampAtLeastOne(n) == IF n < 1 THEN 1 ELSE n

Clamp(n) == IF n < 1 THEN 1 ELSE IF n > MaxSplitPerAxis THEN MaxSplitPerAxis ELSE n

\* Line 315: real_block_length / s for s in real_block_short_sides.
ExpectedAspects ==
  [k \in 1..2 |-> <<RealBlockLength * 10, RealBlockShortSides[k]>>]

\* The expected aspect taken from the top face (7 x 2.5) whatever is observed.
ExpectedAspectTopFace(observed_aspect) == ExpectedAspects[1]

\* Line 316: min(..., key=abs(observed - a)), the first of equal keys.
ExpectedAspect(observed_aspect) ==
  IF RatLeq(RatAbsDiff(observed_aspect, ExpectedAspects[1]),
            RatAbsDiff(observed_aspect, ExpectedAspects[2]))
  THEN ExpectedAspects[1] ELSE ExpectedAspects[2]

\* width / height of a rectangle.
Aspect(rect) == RatDiv(rect.width, rect.height)

\* Any excess of the observed aspect over the expected one counted as a block.
NMajorAnyExcess(rect) ==
  LET observed_aspect == Aspect(rect)
      expected_aspect == ExpectedAspect(observed_aspect)
      ratio == RatDiv(observed_aspect, expected_aspect)
  IN IF RatLess(<<1, 1>>, ratio)
     THEN Clamp((ratio[1] + ratio[2] - 1) \div ratio[2])
     ELSE 1

\* Lines 322-331.
NMajor(rect) ==
  LET observed_aspect == Aspect(rect)
      expected_aspect == ExpectedAspect(observed_aspect)
  IN IF RatLess(RatTimesPct(expected_aspect, 100 + SplitTolerancePct), observed_aspect)
     THEN Clamp(Round(RatDiv(observed_aspect, expected_aspect)))
     ELSE 1

\* The minor count computed from the ratio of the major axis.
NMinorFromMajorRatio(rect) ==
  LET observed_aspect == Aspect(rect)
      expected_aspect == ExpectedAspect(observed_aspect)
      ratio == RatDiv(observed_aspect, expected_aspect)
  IN IF RatLess(<<100 + SplitTolerancePct, 100>>, ratio)
     THEN Clamp(Round(ratio))
     ELSE 1

\* Lines 326-332.
NMinor(rect) ==
  LET observed_aspect == Aspect(rect)
      expected_aspect == ExpectedAspect(observed_aspect)
      ratio == RatDiv(expected_aspect, observed_aspect)
  IN IF RatLess(<<100 + SplitTolerancePct, 100>>, ratio)
     THEN Clamp(Round(ratio))
     ELSE 1

\* The grid laid out from the original centre onwards, not around it.
SubRectFromCentre(rect, n_major, n_minor, i, j) ==
  [width |-> <<rect.width[1], rect.width[2] * n_major>>,
   height |-> <<rect.height[1], rect.height[2] * n_minor>>,
   angle |-> rect.angle,
   off_major |-> <<2 * i * rect.width[1], 2 * n_major * rect.width[2]>>,
   off_minor |-> <<2 * j * rect.height[1], 2 * n_minor * rect.height[2]>>]

\* Lines 343-367: sub-rectangle (i, j) of the grid; the offsets of its centre
\* from the original centre along the major and the minor axis are
\* (i - (n_major - 1) / 2) * sub_w and (j - (n_minor - 1) / 2) * sub_h.
SubRect(rect, n_major, n_minor, i, j) ==
  [width |-> <<rect.width[1], rect.width[2] * n_major>>,
   height |-> <<rect.height[1], rect.height[2] * n_minor>>,
   angle |-> rect.angle,
   off_major |-> <<(2 * i - (n_major - 1)) * rect.width[1], 2 * n_major * rect.width[2]>>,
   off_minor |-> <<(2 * j - (n_minor - 1)) * rect.height[1], 2 * n_minor * rect.height[2]>>]

\* The splitter with the tolerance test but a split count of at most 2.
SplitRectInTwo(rect) ==
  IF NMajor(rect) = 1 THEN <<rect>>
  ELSE [k \in 1..2 |-> SubRect(rect, 2, 1, k - 1, 0)]

\* _split_rect_if_merged (lines 296-369).
SplitRectIfMerged(rect) ==
  IF rect.width[1] <= 0 \/ rect.height[1] <= 0 THEN <<rect>>
  ELSE LET n_major == NMajor(rect)
           n_minor == NMinor(rect)
       IN IF n_major = 1 /\ n_minor = 1 THEN <<rect>>
          ELSE [k \in 1..(n_major * n_minor) |->
                  SubRect(rect, n_major, n_minor, (k - 1) \div n_minor, (k - 1) % n_minor)]

\* find_aligned_rectangle without the swap of line 82-84.
FindRawRectangle(contour) ==
  [width |-> <<contour.size[1], 1>>, height |-> <<contour.size[2], 1>>,
   angle |-> contour.angle, off_major |-> <<0, 1>>, off_minor |-> <<0, 1>>]

\* find_aligned_rectangle (lines 67-92): the sides of cv2.minAreaRect, swapped
\* so that width is the longer one.
FindAlignedRectangle(contour) ==
  LET width == contour.size[1]
      height == contour.size[2]
  IN IF width < height
     THEN [width |-> <<height, 1>>, height |-> <<width, 1>>, angle |-> contour.angle + 90,
           off_major |-> <<0, 1>>, off_minor |-> <<0, 1>>]
     ELSE [width |-> <<width, 1>>, height |-> <<height, 1>>, angle |-> contour.angle,
           off_major |-> <<0, 1>>, off_minor |-> <<0, 1>>]

\* calculate_distance (lines 94-101), in cm.
CalculateDistance(focal_length, pixel_width) ==
  IF focal_length = NoNumber THEN <<0, 1>>
  ELSE <<RealBlockLength * focal_length * pixel_width[2], pixel_width[1]>>

\* pixel_to_3d_world (lines 103-136): dividing by an fx that is None raises
\* TypeError; otherwise the point's z is the distance.
PixelTo3dWorld(fx, distance_cm) ==
  IF fx = NoNumber THEN [kind |-> "TypeError", z |-> <<0, 1>>]
  ELSE [kind |-> "point", z |-> distance_cm]

\* transform_to_new_frame without the test of line 158.
TransformUnguarded(homography_matrix, camera_coords) ==
  IF camera_coords.z[1] = 0 THEN NoPoint
  ELSE [kind |-> "point", z |-> camera_coords.z]

\* transform_to_new_frame (lines 149-194).  z_new = 78.5 - z - 120 + 15 / 2;
\* a "degenerate" matrix is one whose projective normaliser is near zero.
TransformToNewFrame(homography_matrix, camera_coords) ==
  IF homography_matrix = "None" THEN NoPoint
  ELSE IF camera_coords.z[1] = 0 THEN NoPoint
  ELSE IF homography_matrix = "degenerate" THEN NoPoint
  ELSE [kind |-> "point",
        z |-> <<(785 - 1200 + 75) * camera_coords.z[2] - 10 * camera_coords.z[1],
                10 * camera_coords.z[2]>>]

\* The solidity filter left out.
LowSolidityNever(area, hull_area) == FALSE

\* Line 397, with line 395.
LowSolidity(area, hull_area) == hull_area > 0 /\ area * 100 < MinSolidityPct * hull_area

\* Lines 404-412: the rectangles of a contour that go on to become observations.
PassesAspect(ri) ==
  /\ ri.width[1] > 0 /\ ri.height[1] > 0
  /\ ~RatLess(Aspect(ri), MinAspect)
  /\ ~RatLess(<<MaxAspect, 1>>, Aspect(ri))

\* Lines 414-455: the observation of rectangle ri of contour c (the n-th of
\* the pass), given the value the local `solidity` holds.
BlockData(d, c, n, ri, count, solidity) ==
  LET dist == IF d.focal_length # NoNumber
              THEN CalculateDistance(d.focal_length, ri.width) ELSE <<0, 1>>
      world_coords == PixelTo3dWorld(d.fx, dist)
  IN [width |-> ri.width, height |-> ri.height, angle |-> ri.angle,
      off_major |-> ri.off_major, off_minor |-> ri.off_minor,
      area |-> <<c.area, count>>,
      distance |-> dist,
      aspect_ratio |-> Aspect(ri),
      solidity |-> solidity,
      world_coords |-> world_coords,
      new_frame_coords |-> TransformToNewFrame(d.homography_matrix, world_coords),
      intersection_point |-> c.anchor,
      intersection_world_coords |-> IF c.anchor THEN world_coords ELSE NoPoint,
      intersection_new_frame_coords |->
        IF c.anchor THEN TransformToNewFrame(d.homography_matrix, world_coords)
        ELSE NoPoint,
      contour |-> c, n |-> n]

\* The sides cv2.minAreaRect reports, in either order.
RawSizes ==
  { <<300, 40>>, <<40, 300>>, <<600, 40>>, <<112, 40>>, <<140, 40>>, <<148, 40>>,
    <<150, 40>>, <<260, 40>>, <<280, 40>>, <<40, 35>>, <<100, 100>>, <<500, 10>> }
ContourAreas == {499, 500, 600, 4000}
HullAreas == {1000, 4000}
RawAngles == {0, 30}

\* What cv2 reports of a contour: its area, the area of its convex hull (which
\* contains it), the sides and angle of its minimum-area rectangle (which
\* contains the hull), and whether the ray from the centre meets the box.
Contours ==
  { c \in [area : ContourAreas, hull_area : HullAreas, size : RawSizes,
            angle : RawAngles, anchor : BOOLEAN] :
      c.area <= c.hull_area /\ c.hull_area <= c.size[1] * c.size[2] }

MaxContours == 2

detRest == <<ctlVars, seqVars, waitVars, histVars, other, cal>>

\* JengaBlockDetector(focal_length, camera_intrinsics=...) (lines 9-51): without
\* intrinsics, fx is the focal length, None included.
NewDetector(focal_length, intrinsics_fx) ==
  /\ det.pc \in {"off", "idle", "raised"}
  /\ det' = [DetOff EXCEPT !.pc = "idle", !.focal_length = focal_length,
                           !.fx = IF intrinsics_fx = NoNumber THEN focal_length
                                  ELSE intrinsics_fx]
  /\ UNCHANGED detRest

\* load_calibration_matrix (lines 138-147): FileNotFoundError is caught.
LoadCalibrationMatrix(file) ==
  /\ det.pc \in {"idle", "raised"}
  /\ det' = [det EXCEPT !.homography_matrix = IF file = "absent" THEN "None" ELSE file]
  /\ UNCHANGED detRest

\* detect_blocks is entered (lines 371-374).
DetectBlocks ==
  /\ det.pc \in {"idle", "raised"}
  /\ det' = [det EXCEPT !.pc = "loop", !.n = 0, !.rect_n = 0, !.rect_info = NoRect,
                        !.rect_infos = <<>>, !.solidity = Unbound,
                        !.detected_blocks = <<>>, !.exc = ""]
  /\ UNCHANGED detRest

\* One iteration of the loop over the contours (lines 380-457).
ProcessContour(c) ==
  /\ det.pc = "loop"
  /\ det.n < MaxContours
  /\ UNCHANGED detRest
  /\ LET n == det.n + 1 IN
     IF c.area < MinArea
     THEN det' = [det EXCEPT !.n = n]
     ELSE
       LET rect_info == FindAlignedRectangle(c)
           rect_infos == SplitRectIfMerged(rect_info)
           solidity == IF c.hull_area > 0 THEN <<c.area, c.hull_area>> ELSE det.solidity
           seen == [det EXCEPT !.n = n, !.rect_n = n, !.rect_info = rect_info,
                               !.rect_infos = rect_infos, !.solidity = solidity]
           kept == SelectSeq(rect_infos, PassesAspect)
           Data(ri) == BlockData(det, c, n, ri, Len(rect_infos), solidity)
       IN IF LowSolidity(c.area, c.hull_area) THEN det' = seen
          ELSE IF kept = <<>> THEN det' = seen
          ELSE IF det.fx = NoNumber
            THEN det' = [seen EXCEPT !.pc = "raised", !.exc = "TypeError",
                                     !.detected_blocks = <<>>]
          ELSE IF solidity = Unbound
            THEN det' = [seen EXCEPT !.pc = "raised", !.exc = "UnboundLocalError",
                                     !.detected_blocks = <<>>]
          ELSE det' = [seen EXCEPT !.detected_blocks = det.detected_blocks \o [k \in 1..Len(kept) |-> Data(kept[k])]]

\* detect_blocks returns detected_blocks to its caller (line 459); its locals
\* go with its frame.
DetectReturns ==
  /\ det.pc = "loop"
  /\ det' = [det EXCEPT !.pc = "idle", !.n = 0, !.rect_n = 0, !.rect_info = NoRect,
                        !.rect_infos = <<>>, !.solidity = Unbound,
                        !.detected_blocks = <<>>]
  /\ UNCHANGED detRest

InitDetect ==
  /\ Constructed("doesnot_have_block")
  /\ last_done = "off"
  /\ AuxIdle

NextDetect ==
  \/ \E f \in {NoNumber, FocalPx}, fx \in {NoNumber, FocalPx} : NewDetector(f, fx)
  \/ \E file \in {"absent", "regular", "degenerate"} : LoadCalibrationMatrix(file)
  \/ DetectBlocks
  \/ \E c \in Contours : ProcessContour(c)
  \/ DetectReturns

SpecDetect == InitDetect /\ [][NextDetect]_vars


\* ------------------------------------- detect_jenga.py: the long-axis direction
\* Vector components are in units of 1e-7, so that a unit vector has length
\* UnitLength and the eps of _direction_away_from_observer_bottom is AxisEps.
UnitLength == 10000000
AxisEps == 10
\* How far, in those units, the small component of a nearly horizontal or
\* nearly vertical axis is drawn from zero.
MaxTilt == 12

\* What _major_axis_unit_vector returns (lines 196-207), (cos, sin) of the
\* rectangle's angle: axes within MaxTilt of horizontal and of vertical, in
\* both senses, and the axes with components 0.6 and 0.8.
AxisVectors ==
  {<<sx * UnitLength, k>> : sx \in {0 - 1, 1}, k \in (0 - MaxTilt)..MaxTilt}
    \cup {<<k, sy * UnitLength>> : sy \in {0 - 1, 1}, k \in (0 - MaxTilt)..MaxTilt}
    \cup {<<sx * 6000000, sy * 8000000>> : sx \in {0 - 1, 1}, sy \in {0 - 1, 1}}
    \cup {<<sx * 8000000, sy * 6000000>> : sx \in {0 - 1, 1}, sy \in {0 - 1, 1}}

\* The tie-break taken toward negative x.
DirectionPreferNegativeX(vx, vy) ==
  IF vy > AxisEps \/ (Abs(vy) <= AxisEps /\ vx > 0)
  THEN <<0 - vx, 0 - vy>>
  ELSE <<vx, vy>>

\* _direction_away_from_observer_bottom (lines 209-220).
DirectionAwayFromObserverBottom(vx, vy) ==
  IF vy > AxisEps \/ (Abs(vy) <= AxisEps /\ vx < 0)
  THEN <<0 - vx, 0 - vy>>
  ELSE <<vx, vy>>

\* Lines 427-428 (and 474-475): the long axis of a rectangle whose angle gives
\* the unit vector v, and its resolved direction.
MajorAxisDirection(v) ==
  /\ det.pc \in {"idle", "raised"}
  /\ det' = [det EXCEPT !.axis = v,
                        !.direction = DirectionAwayFromObserverBottom(v[1], v[2])]
  /\ UNCHANGED detRest

InitAxis ==
  /\ Constructed("doesnot_have_block")
  /\ last_done = "off"
  /\ AuxIdle

NextAxis ==
  \/ \E f \in {NoNumber, FocalPx}, fx \in {NoNumber, FocalPx} : NewDetector(f, fx)
  \/ \E v \in AxisVectors : MajorAxisDirection(v)

SpecAxis == InitAxis /\ [][NextAxis]_vars

\* --------------------------------------------------- colour_coordinates.py
\* `a or b` on two points that are dicts or None: a non-empty dict is truthy.
PointOr(a, b) == IF a # NoPoint THEN a ELSE b

\* `coords is None` (line 230), negated.
IsPoint(p) == p # NoPoint

\* Lines 224-242: the point each block contributes to the map, if any.
CoordinatesOf(blocks) ==
  SelectSeq([k \in DOMAIN blocks |->
               PointOr(blocks[k].intersection_new_frame_coords,
                       blocks[k].intersection_world_coords)],
            IsPoint)

\* capture up to the detection loop (lines 171-216): a detector is constructed
\* with defaults, given the focal length and the intrinsics of the colour
\* stream, the calibration file is loaded and detect_blocks is entered.
CaptureStart(file) ==
  /\ det.pc \in {"off", "idle", "captured"}
  /\ det' = [DetOff EXCEPT !.pc = "loop", !.focal_length = FocalPx, !.fx = FocalPx,
                           !.homography_matrix = IF file = "absent" THEN "None" ELSE file]
  /\ UNCHANGED detRest

\* detect_blocks returns and capture builds and returns the map (lines 218-244).
CaptureReturns ==
  /\ det.pc = "loop"
  /\ det' = [det EXCEPT !.pc = "captured", !.n = 0, !.rect_n = 0, !.rect_info = NoRect,
                        !.rect_infos = <<>>, !.solidity = Unbound,
                        !.coordinates = CoordinatesOf(det.detected_blocks)]
  /\ UNCHANGED detRest

InitCapture ==
  /\ Constructed("doesnot_have_block")
  /\ last_done = "off"
  /\ AuxIdle

NextCapture ==
  \/ \E file \in {"absent", "regular", "degenerate"} : CaptureStart(file)
  \/ \E c \in Contours : ProcessContour(c)
  \/ CaptureReturns

SpecCapture == InitCapture /\ [][NextCapture]_vars

\* ------------------------------- calibrate.py, calibration/arm_calibrate.py
\* marker_ids, the identities the calibrators look for.
MarkerIds == <<0, 1, 2, 3>>
\* An identity of the dictionary that is none of them.
StrayId == 7
MaxMarkers == 5

Range(seq) == {seq[k] : k \in DOMAIN seq}

\* What detectMarkers reports: ids is None when it found nothing, else the
\* identities found, here in ascending order (a marker can be seen twice) or,
\* for the four expected ones, in two other orders.
Detections ==
  {[ids_none |-> TRUE, ids |-> <<>>]}
    \cup {[ids_none |-> FALSE, ids |-> q] :
            q \in {r \in UNION {[1..m -> Range(MarkerIds) \cup {StrayId}] : m \in 1..MaxMarkers} :
                     \A k \in 1..(Len(r) - 1) : r[k] <= r[k + 1]}}
    \cup {[ids_none |-> FALSE, ids |-> <<3, 2, 1, 0>>],
          [ids_none |-> FALSE, ids |-> <<1, 0, 3, 2, 7>>]}

\* The identity test left out: four detections are taken to be the four markers.
HasAllByCount(ids, marker_ids) == TRUE

\* list(ids).index(target_id) finds every target (calibrate.py lines 68-77,
\* arm_calibrate.py lines 130-135).
HasAll(ids, marker_ids) == \A k \in DOMAIN marker_ids : marker_ids[k] \in Range(ids)

\* compute_homography (calibrate.py lines 56-80, arm_calibrate.py lines 114-152).
ComputeHomography(d) ==
  IF d.ids_none \/ Len(d.ids) < 4
    THEN [matrix |-> "None", printed |-> "Error: Less than 4 markers detected"]
  ELSE IF ~HasAll(d.ids, MarkerIds)
    THEN [matrix |-> "None", printed |-> "Error: Marker ID missing from view"]
  ELSE [matrix |-> "H", printed |-> "Found ID"]

calRest == <<ctlVars, seqVars, waitVars, histVars, other, det>>

\* A run of a calibrator on an image in which detectMarkers reports d: the
\* matrix is saved when there is one, and `failed` is what run returns or
\* prints last otherwise.
CalibratorRun(who, d, failed, succeeded) ==
  /\ LET h == ComputeHomography(d) IN
       cal' = [pc |-> "done", who |-> who, ids_none |-> d.ids_none, ids |-> d.ids,
               matrix |-> h.matrix, printed |-> h.printed,
               ret |-> IF h.matrix = "None" THEN failed ELSE succeeded,
               saved |-> h.matrix # "None",
               file |-> IF h.matrix = "None" THEN cal.file ELSE h.matrix,
               file_before |-> cal.file]
  /\ UNCHANGED calRest

\* Calibrator.run (calibrate.py lines 82-92).
RunCalibrator(d) == CalibratorRun("Calibrator", d, "False", "True")

\* InteractiveCalibrator.run (arm_calibrate.py lines 154-174), which returns
\* None either way and prints "Calibration failed." when there is no matrix.
RunInteractive(d) == CalibratorRun("InteractiveCalibrator", d, "None, Calibration failed.", "None")

InitCalibrate ==
  /\ Constructed("doesnot_have_block")
  /\ last_done = "off"
  /\ AuxIdle

NextCalibrate ==
  \/ \E d \in Detections : RunCalibrator(d)
  \/ \E d \in Detections : RunInteractive(d)

SpecCalibrate == InitCalibrate /\ [][NextCalibrate]_vars


\* ------------------------------------------------------------------ claims
EMPTY == "doesnot_have_block"
HOLDING == "have_block"
Releases == {"place", "drop"}

\* A step in which a motion sequence returns to execute_action.
SequenceEnds == pc # "idle" /\ pc' = "idle"

\* C1: when the motion sequence succeeds, pick issued in EMPTY moves the state
\* to HOLDING and place or drop issued in HOLDING moves it to EMPTY; no step of
\* execute_action changes the state in any other way.
C1_Transitions ==
  [][ (op' = "execute_action") =>
        IF SequenceEnds /\ ret'.success
        THEN \/ /\ act = "pick"
                /\ NormalizeState(current_state) = EMPTY
                /\ current_state' = HOLDING
             \/ /\ act \in Releases
                /\ NormalizeState(current_state) = HOLDING
                /\ current_state' = EMPTY
        ELSE current_state' = current_state ]_vars

C1_Witness ==
  /\ pc = "idle" /\ op = "execute_action"
  /\ ret.success /\ ret.kind = "ok"
  /\ act = "pick" /\ current_state = HOLDING
  /\ Len(cmds) = 7

\* The requested action is known and the state is the wrong one for it.
WrongState(action, state) ==
  /\ action # NotAString
  /\ \/ StripLower(action) = "pick" /\ NormalizeState(state) = HOLDING
     \/ StripLower(action) \in Releases /\ NormalizeState(state) = EMPTY

C3_FailureKeepsState ==
  [][ (op' = "execute_action") =>
        /\ (SequenceEnds /\ ret'.kind = "Action execution failed")
             => (~ret'.success /\ current_state' = current_state)
        /\ (SequenceEnds /\ ~ret'.success) => current_state' = current_state
        /\ (current_state' = HOLDING /\ current_state # HOLDING)
             => (SequenceEnds /\ act = "pick" /\ ret'.success /\ ret'.kind = "ok") ]_vars

C3_Witness ==
  /\ pc = "idle" /\ op = "execute_action"
  /\ act = "pick"
  /\ ret.kind = "Action execution failed" /\ ret.msg = "Failed to close gripper"
  /\ Len(cmds) = 5
  /\ NormalizeState(current_state) = EMPTY


\* C4 (as stated): once a move command or a feedback poll of a sequence has
\* failed, no further primitive of that sequence is issued, execute_action
\* returns success = False and the state is unchanged.
C4_AbortOnCommError ==
  [][ (op' = "execute_action" /\ pc # "idle" /\ comm_fail) =>
        /\ cmds' = cmds
        /\ pc' = "idle" => (~ret'.success /\ current_state' = current_state) ]_vars

\* C5 (as stated, as a bound a finite run refutes): while a completion wait is
\* polling, the time since it started is at most the timeout plus one iteration.
C5_WaitBounded == pc = "wait" => elapsed <= TimeoutTicks + MaxAdvance

\* C6: the wait reports completion only after stability_required consecutive
\* comparisons in which no monitored axis changed by the tolerance or more, and
\* its count is the length of the current run of such comparisons (a comparison
\* at or above the tolerance makes it zero).
C6_StableAfterQuietRun ==
  /\ wait_end = "stable" => quiet_run >= StabilityRequired
  /\ pc = "wait" => stable_count = quiet_run
  /\ stable_count < StabilityRequired

C6_Witness ==
  /\ pc = "seq" /\ step = 2
  /\ wait_end = "stable" /\ quiet_run = StabilityRequired

\* C7 (as stated, communication failures apart): the next primitive is about
\* to be issued only when the feedback of the previous one has stabilised.
C7_NextOnlyAfterStable ==
  (pc = "seq" /\ step > 1 /\ wait_end # "commfail") => wait_end = "stable"

WaitEnds == {"stable", "timeout", "commfail"}

\* C7 (amended): every primitive is issued with wait=True, and primitive k+1 is
\* issued only after the completion wait of primitive k has returned, by
\* stability, by timeout or by a feedback poll that returned nothing.
C7_NextAfterWaitReturned ==
  /\ pc = "seq" => /\ waits_done = step - 1
                   /\ Len(cmds) = step
                   /\ step > 1 => wait_end \in WaitEnds
  /\ pc = "wait" => /\ waits_done = step - 1
                    /\ Len(cmds) = step + 1

C7_Witness ==
  /\ pc = "seq" /\ act = "pick" /\ step = 4
  /\ waits_done = 3 /\ wait_end = "timeout"

\* An action name that is a string and none of pick, place, drop.
UnknownName(a) == a # "" /\ a \notin ValidActions

\* C8 (as stated): an unknown action name leaves execute_action as an error
\* raised to the caller.
C8_UnknownActionRaises ==
  (pc = "idle" /\ op = "execute_action" /\ UnknownName(act)) => ret.outcome = "raised"

\* C8 (amended): an unknown action name is reported to the caller as the
\* failure result "FSM validation error" (the ValueError of fsm_controller,
\* caught), which is not the rejection result; no hardware command is issued
\* and the state is unchanged.
C8_UnknownActionReported ==
  [][ (pc = "idle" /\ op' = "execute_action" /\ UnknownName(act')) =>
        /\ pc' = "idle"
        /\ ret' = Returned(FALSE, "FSM validation error", "")
        /\ ret'.kind # "Action rejected by FSM"
        /\ cmds' = <<>>
        /\ current_state' = current_state ]_vars

C8_Witness ==
  /\ pc = "idle" /\ op = "execute_action" /\ act = "grab"
  /\ ret.outcome = "returned" /\ ret.kind = "FSM validation error"
  /\ cmds = <<>>

InFlight(frame_pc) == frame_pc # "idle"

\* C11 (as stated): while an admitted action of one caller has not committed
\* or failed, no other call on the same controller is admitted by the gate and
\* none issues a hardware command.
C11_OneSequenceInFlight ==
  /\ [](~(InFlight(pc) /\ InFlight(other.pc)))
  /\ [][cmds' # cmds => ~InFlight(other.pc)]_vars

\* C12: a feedback poll that returns nothing ends the completion wait at that
\* poll, whatever the stability count and the elapsed time: the wait returns
\* normally to its move, so the sequence goes on to its next primitive (or
\* returns success after the last one) without another poll of this wait.
C12_FailedPollEndsWait ==
  [][ \A d \in 0..MaxAdvance :
        (pc = "wait" /\ Poll(RespNone, d)) =>
          /\ comm_fail'
          /\ stable_count' = 0 /\ last_values' = EmptyDict /\ elapsed' = 0
          /\ IF step < Len(plan)
             THEN pc' = "seq" /\ step' = step + 1 /\ wait_end' = "commfail"
                  /\ waits_done' = waits_done + 1 /\ quiet_run' = quiet_run
             ELSE pc' = "idle" /\ ret'.success ]_vars

C12_Witness ==
  /\ pc = "seq" /\ step = 2
  /\ wait_end = "commfail" /\ quiet_run = StabilityRequired - 1
  /\ comm_fail

\* The observations of the pass in progress that came from its k-th contour.
BlocksOf(k) == {i \in DOMAIN det.detected_blocks : det.detected_blocks[i].n = k}

\* The contour looked at last passed the area filter and its rectangle has
\* these sides.
Region(long, short) ==
  /\ det.pc = "loop" /\ det.rect_n = det.n
  /\ det.rect_info.width = <<long, 1>> /\ det.rect_info.height = <<short, 1>>

\* The contour looked at last passed the solidity filter.
Solid == ~LowSolidity(det.solidity[1], det.solidity[2])

\* The splitter returned `count` rectangles of these sides.
SplitInto(count, long, short) ==
  /\ Len(det.rect_infos) = count
  /\ \A k \in DOMAIN det.rect_infos :
       /\ RatEq(det.rect_infos[k].width, <<long, 1>>)
       /\ RatEq(det.rect_infos[k].height, <<short, 1>>)

\* C13 (as stated): a region of 300 px by 40 px is not split, the splitter
\* returns the original rectangle alone and one observation is emitted for it.
C13_NoSplit300x40 ==
  Region(300, 40) =>
    /\ det.rect_infos = <<det.rect_info>>
    /\ Cardinality(BlocksOf(det.n)) <= 1

\* C13 (amended): a region of 300 px by 40 px has aspect 7.5, above 1.3 times
\* the closest expected aspect 7/1.5, and is split in two: the splitter
\* returns two rectangles of 150 px by 40 px and, the contour being solid,
\* two observations are emitted.
C13_Split300x40 ==
  Region(300, 40) =>
    /\ SplitInto(2, 150, 40)
    /\ Cardinality(BlocksOf(det.n)) = IF Solid THEN 2 ELSE 0
    /\ \A i \in BlocksOf(det.n) : RatEq(det.detected_blocks[i].width, <<150, 1>>)

C13_Witness ==
  /\ Region(300, 40) /\ Solid
  /\ Len(det.rect_infos) = 2
  /\ Cardinality(BlocksOf(det.n)) = 2

\* C14 (as stated): a region of 600 px by 40 px gives n_major = 2, the
\* splitter returns two rectangles with long side 300 px and two observations
\* are emitted.
C14_TwoHalves600x40 ==
  Region(600, 40) =>
    /\ SplitInto(2, 300, 40)
    /\ Solid => Cardinality(BlocksOf(det.n)) = 2

\* C14 (amended): a region of 600 px by 40 px has aspect 15, 3.2 times the
\* closest expected aspect 7/1.5, so n_major = 3: the splitter returns three
\* rectangles with long side 200 px (a third of the original) and, the contour
\* being solid, three observations are emitted.
C14_ThreeThirds600x40 ==
  Region(600, 40) =>
    /\ SplitInto(3, 200, 40)
    /\ Cardinality(BlocksOf(det.n)) = IF Solid THEN 3 ELSE 0
    /\ \A i \in BlocksOf(det.n) : RatEq(det.detected_blocks[i].width, <<200, 1>>)

C14_Witness ==
  /\ Region(600, 40) /\ Solid
  /\ Len(det.rect_infos) = 3
  /\ Cardinality(BlocksOf(det.n)) = 3

\* The observed aspect is within the split tolerance of the closest expected one.
WithinTolerance(rect) ==
  LET observed_aspect == Aspect(rect)
      expected_aspect == ExpectedAspect(observed_aspect)
  IN RatLeq(RatAbsDiff(observed_aspect, expected_aspect),
            RatTimesPct(expected_aspect, SplitTolerancePct))

\* C15: for a rectangle whose aspect is within the tolerance of the closest
\* expected aspect the splitter returns that rectangle alone, unchanged, and
\* the splitter applied to what it returned returns the same again.
C15_SplitIdempotent ==
  (det.pc = "loop" /\ det.rect_n > 0 /\ WithinTolerance(det.rect_info)) =>
    /\ det.rect_infos = <<det.rect_info>>
    /\ SplitRectIfMerged(det.rect_infos[1]) = det.rect_infos

C15_Witness ==
  /\ Region(140, 40) /\ Solid
  /\ WithinTolerance(det.rect_info)
  /\ det.rect_infos = <<det.rect_info>>
  /\ Cardinality(BlocksOf(det.n)) = 1

\* The sides of a rectangle are in order and its angle is the raw angle of
\* contour c, plus 90 degrees when the raw sides were swapped.
Canonical(rect, c) ==
  /\ RatLeq(rect.height, rect.width)
  /\ rect.angle = c.angle + (IF c.size[1] < c.size[2] THEN 90 ELSE 0)

\* C16: every rectangle of the pipeline has width >= height: the rectangle
\* of a contour (its sides swapped and its angle raised by 90 degrees when
\* the raw width is below the raw height), every rectangle the splitter
\* returns and every observation emitted.
C16_LongSideFirst ==
  /\ det.rect_n > 0 =>
       /\ RatLeq(det.rect_info.height, det.rect_info.width)
       /\ \A k \in DOMAIN det.rect_infos :
            /\ RatLeq(det.rect_infos[k].height, det.rect_infos[k].width)
            /\ det.rect_infos[k].angle = det.rect_info.angle
  /\ \A i \in DOMAIN det.detected_blocks :
       Canonical(det.detected_blocks[i], det.detected_blocks[i].contour)

C16_Witness ==
  /\ det.pc = "loop" /\ Len(det.detected_blocks) = 2
  /\ \A i \in DOMAIN det.detected_blocks :
       /\ det.detected_blocks[i].contour.size = <<40, 300>>
       /\ det.detected_blocks[i].angle = 120
       /\ RatEq(det.detected_blocks[i].width, <<150, 1>>)

\* C17 (as stated): with the focal length unset no detection pass raises, and
\* every observation has distance 0 and a camera-frame point with z = 0.
C17_NoFocalNoRaise ==
  det.focal_length = NoNumber =>
    /\ det.pc # "raised"
    /\ \A i \in DOMAIN det.detected_blocks :
         /\ det.detected_blocks[i].distance[1] = 0
         /\ det.detected_blocks[i].world_coords.kind = "point"
         /\ det.detected_blocks[i].world_coords.z[1] = 0

\* The rectangles of the contour looked at last that pass the aspect filter.
Kept == SelectSeq(det.rect_infos, PassesAspect)

\* C18: with no calibration matrix loaded (the file was absent) loading has
\* not raised, every observation has an absent robot-frame point for the
\* block centre and for the anchor, and the pass still emits an observation
\* for every rectangle that passes the filters; a pass raises only for
\* intrinsics without fx, never for the missing matrix.
C18_UncalibratedStillEmits ==
  /\ det.pc = "raised" => (det.fx = NoNumber /\ det.exc = "TypeError")
  /\ det.homography_matrix = "None" =>
       /\ \A i \in DOMAIN det.detected_blocks :
            /\ det.detected_blocks[i].new_frame_coords = NoPoint
            /\ det.detected_blocks[i].intersection_new_frame_coords = NoPoint
       /\ (det.pc = "loop" /\ det.rect_n = det.n /\ det.n > 0 /\ Solid) =>
            Cardinality(BlocksOf(det.n)) = Len(Kept)

C18_Witness ==
  /\ det.pc = "loop" /\ det.homography_matrix = "None" /\ det.fx = FocalPx
  /\ Len(det.detected_blocks) = 1
  /\ det.detected_blocks[1].intersection_point
  /\ det.detected_blocks[1].world_coords.z[1] > 0
  /\ det.detected_blocks[1].intersection_world_coords.kind = "point"
  /\ det.detected_blocks[1].new_frame_coords = NoPoint
  /\ det.detected_blocks[1].intersection_new_frame_coords = NoPoint

\* C20: every observation comes from a contour of area >= 500 and solidity
\* >= 0.6, has a long/short ratio in [1.2, 6] and carries the solidity
\* area / hull area of its own contour.
C20_FiltersHold ==
  \A i \in DOMAIN det.detected_blocks :
    LET b == det.detected_blocks[i] IN
      /\ b.contour.area >= MinArea
      /\ b.contour.area * 100 >= MinSolidityPct * b.contour.hull_area
      /\ RatLeq(MinAspect, RatDiv(b.width, b.height))
      /\ RatLeq(RatDiv(b.width, b.height), <<MaxAspect, 1>>)
      /\ b.aspect_ratio = RatDiv(b.width, b.height)
      /\ b.solidity = <<b.contour.area, b.contour.hull_area>>

C20_Witness ==
  /\ det.pc = "loop" /\ det.n = 2 /\ Len(det.detected_blocks) = 2
  /\ det.detected_blocks[1].n = 1 /\ det.detected_blocks[1].solidity = <<600, 1000>>
  /\ det.detected_blocks[2].n = 2 /\ det.detected_blocks[2].solidity = <<4000, 4000>>

\* A run that found fewer than four markers, or not all four expected ones.
MarkersLacking ==
  \/ cal.ids_none
  \/ Len(cal.ids) < 4
  \/ \E t \in {0, 1, 2, 3} : \A k \in DOMAIN cal.ids : cal.ids[k] # t

\* C19: a calibration run that detected fewer than four markers, or lacks one
\* of the four expected identities, ends in the calibration error (an error
\* message, and False or "Calibration failed." from run), computes no matrix
\* and leaves the save path as it was; a matrix is saved only when all four
\* expected identities were found.
C19_CalibrationFails ==
  cal.pc = "done" =>
    /\ MarkersLacking =>
         /\ cal.matrix = "None"
         /\ cal.printed \in {"Error: Less than 4 markers detected",
                              "Error: Marker ID missing from view"}
         /\ cal.ret \in {"False", "None, Calibration failed."}
         /\ ~cal.saved
         /\ cal.file = cal.file_before
    /\ cal.saved => (~MarkersLacking /\ cal.file = cal.matrix /\ cal.matrix # "None")

C19_Witness ==
  /\ cal.pc = "done" /\ cal.ids = <<0, 0, 1, 2>>
  /\ cal.printed = "Error: Marker ID missing from view"
  /\ ~cal.saved /\ cal.file = "H" /\ cal.file_before = "H"

\* Command c is a Cartesian move to (x, y, z), whatever its gripper angle.
MoveTo(c, x, y, z) ==
  /\ c.op = "move_cartesian"
  /\ c.args[1] = x /\ c.args[2] = y /\ c.args[3] = z

\* Command c sets the gripper joint to `angle`.
Gripper(c, angle) == c = Joint(GripperJoint, angle)

\* The call that returned last was an execute_action that reported success.
Succeeded(action) ==
  pc = "idle" /\ op = "execute_action" /\ act = action /\ ret.success

\* C21: a successful pick has issued, in this order and nothing else: enable
\* torque, open gripper, move above the target, descend (same x, y, lower z),
\* close gripper, lift back to the approach point, move home; a successful
\* place: enable torque, move to middle, lower, open gripper, return home; a
\* successful drop: enable torque, open gripper, move home.  While a sequence
\* is running the commands issued are the torque command and the first
\* primitives of its plan in order, and success is reported only with all issued.
C21_CommandOrder ==
  /\ Succeeded("pick") =>
       /\ Len(cmds) = 7
       /\ cmds[1] = Torque(TRUE)
       /\ Gripper(cmds[2], PickOpenAngle)
       /\ cmds[3].op = "move_cartesian"
       /\ MoveTo(cmds[4], cmds[3].args[1], cmds[3].args[2], cmds[4].args[3])
       /\ cmds[4].args[3] < cmds[3].args[3]
       /\ Gripper(cmds[5], PickCloseAngle)
       /\ MoveTo(cmds[6], cmds[3].args[1], cmds[3].args[2], cmds[3].args[3])
       /\ MoveTo(cmds[7], PickHome[1], PickHome[2], PickHome[3])
  /\ Succeeded("place") =>
       /\ Len(cmds) = 5
       /\ cmds[1] = Torque(TRUE)
       /\ MoveTo(cmds[2], 200, 0, 150)
       /\ MoveTo(cmds[3], 200, 0, PlaceZ)
       /\ Gripper(cmds[4], PlaceOpenAngle)
       /\ MoveTo(cmds[5], 200, 0, 150)
  /\ Succeeded("drop") =>
       /\ Len(cmds) = 3
       /\ cmds[1] = Torque(TRUE)
       /\ Gripper(cmds[2], DropOpenAngle)
       /\ MoveTo(cmds[3], 40, 1, 53)
  /\ (pc = "idle" /\ op = "execute_action" /\ ret.success) => act \in ValidActions
  /\ pc # "idle" =>
       /\ Len(cmds) = (IF pc = "seq" THEN step ELSE step + 1)
       /\ cmds[1] = Torque(TRUE)
       /\ \A k \in 2..Len(cmds) : cmds[k] = plan[k - 1].cmd
       /\ ~ret.success

C21_Witness ==
  /\ Succeeded("pick")
  /\ cmds[3] = Cartesian(200, 0, 0 - 110, PickOpenAngle)
  /\ cmds[4] = Cartesian(200, 0, 0 - 115, PickOpenAngle)
  /\ cmds[6] = Cartesian(200, 0, 0 - 110, PickCloseAngle)

\* The gripper angle a command of a sequence commands: the angle of set_joint
\* on the gripper, the t of a Cartesian move.
GripperAngleOf(c) == IF c.op = "set_joint" THEN c.args[2] ELSE c.args[4]

\* The gripper angle commanded last before command k of the call in progress
\* (or returned last): by the command before it or, when that is the torque
\* command, by the pick that the release follows.
AngleBefore(k) == IF k = 2 THEN PickCloseAngle ELSE GripperAngleOf(cmds[k - 1])

\* C22: every Cartesian move of a sequence carries as t the gripper angle
\* commanded last before it.  In pick that is the open angle from the open
\* command to the close command and the close angle for the lift and the
\* return home; a place or drop runs only after a successful pick, and its
\* moves before its open command carry the angle that pick closed with.
C22_MovesCarryLastAngle ==
  /\ \A k \in 2..Len(cmds) :
       cmds[k].op = "move_cartesian" => cmds[k].args[4] = AngleBefore(k)
  /\ (Len(cmds) > 1 /\ cmds[2].op = "move_cartesian") => act \in Releases
  /\ (act \in Releases /\ pc # "idle") => last_done = "pick"
  /\ act = "pick" =>
       \A k \in 2..Len(cmds) :
         cmds[k].op = "move_cartesian" =>
           cmds[k].args[4] = (IF k < 5 THEN PickOpenAngle ELSE PickCloseAngle)
  /\ act \in Releases =>
       \A k \in 2..Len(cmds) :
         (cmds[k].op = "move_cartesian" /\ \A j \in 2..k : cmds[j].op # "set_joint")
           => cmds[k].args[4] = PickCloseAngle

C22_Witness ==
  /\ act = "place" /\ pc = "seq" /\ step = 3 /\ last_done = "pick"
  /\ cmds[2] = Cartesian(200, 0, 150, PickCloseAngle)
  /\ cmds[3] = Cartesian(200, 0, PlaceZ, PickCloseAngle)

\* The poll answered by resp, d ticks after the previous one, is a comparison
\* that does not complete the stability run and finds the timeout passed.
TimeoutPoll(resp, d) ==
  /\ pc = "wait"
  /\ ~IsFalsy(resp) /\ resp.kind = "dict"
  /\ DOMAIN last_values # {}
  /\ NextStableCount(stable_count, MaxDelta(CurrentValues(resp), last_values))
       < StabilityRequired
  /\ Min(elapsed + d, MaxElapsed) > TimeoutTicks

\* C23: a completion wait that ends by timeout returns normally to its move:
\* no failure is reported for it, the sequence goes on to its next primitive,
\* and when the move was the last one the action reports success and the
\* state transition of the gate is committed.
C23_TimeoutIsNotAnError ==
  [][ \A resp \in SequenceResponses, d \in 0..MaxAdvance :
        (TimeoutPoll(resp, d) /\ Poll(resp, d)) =>
          /\ comm_fail' = comm_fail
          /\ IF step < Len(plan)
             THEN /\ pc' = "seq" /\ step' = step + 1 /\ plan' = plan
                  /\ wait_end' = "timeout" /\ waits_done' = waits_done + 1
                  /\ ret' = NoRet /\ current_state' = current_state
             ELSE /\ pc' = "idle"
                  /\ ret' = Returned(TRUE, "ok", SuccessMsg(act))
                  /\ current_state' = new_state
                  /\ current_state' = (IF act = "pick" THEN HOLDING ELSE EMPTY) ]_vars

C23_Witness ==
  /\ pc = "seq" /\ act = "place" /\ step = Len(PlacePlan)
  /\ wait_end = "timeout" /\ waits_done = 3
  /\ ~comm_fail /\ ret = NoRet
  /\ Len(cmds) = 4

\* The inputs of a pick are unusable: no targets map, no colour, a colour
\* that is not in the map, no coordinate for the colour, or a first coordinate
\* of fewer than two components.
Unusable(targets, color) ==
  \/ targets.kind # "dict"
  \/ color = NoneArg
  \/ color \notin DOMAIN targets.items
  \/ targets.items[color] = <<>>
  \/ Len(targets.items[color][1]) < 2

\* C24: a pick called with unusable inputs returns failure to its caller
\* without having issued any hardware command, the torque command included,
\* and leaves the state as it was (EMPTY stays EMPTY).
C24_UnusablePickFails ==
  [][ (pc = "idle" /\ op' = "execute_action" /\ act' = "pick") =>
        \A a \in {"pick", " Pick "}, t \in TargetInputs, c \in ColorInputs, l \in BOOLEAN :
          (Unusable(t, c) /\ ExecuteAction(a, t, c, l)) =>
            /\ pc' = "idle"
            /\ ret'.outcome = "returned" /\ ~ret'.success
            /\ cmds' = <<>>
            /\ current_state' = current_state
            /\ NormalizeState(current_state) = EMPTY =>
                 /\ ret'.kind = "Action execution failed"
                 /\ NormalizeState(current_state') = EMPTY ]_vars

C24_Witness ==
  /\ pc = "idle" /\ op = "execute_action" /\ act = "pick"
  /\ ret = Returned(FALSE, "Action execution failed", "Invalid coordinate")
  /\ cmds = <<>>
  /\ current_state = EMPTY

\* The split count the statement gives for a ratio of observed to expected
\* size: 1 up to 1 + tolerance, above it the rounded ratio, at most the cap.
CountFor(ratio) ==
  IF RatLess(<<100 + SplitTolerancePct, 100>>, ratio)
  THEN Min(Round(ratio), MaxSplitPerAxis)
  ELSE 1

\* The splitter has been applied to the rectangle of a contour of this pass.
SplitDone == det.pc = "loop" /\ det.rect_n > 0

\* C25: with ratio_major = observed aspect / expected aspect and ratio_minor
\* its inverse, each split count is 1 when its ratio is at most 1.30 and the
\* rounded ratio above that, capped at 8, so it lies in 1..8; the splitter
\* returns n_major * n_minor rectangles, each 1/n_major of the width and
\* 1/n_minor of the height of the original.
C25_SplitCounts ==
  SplitDone =>
    LET observed == Aspect(det.rect_info)
        expected == ExpectedAspect(observed)
        n_major == CountFor(RatDiv(observed, expected))
        n_minor == CountFor(RatDiv(expected, observed))
    IN /\ n_major \in 1..MaxSplitPerAxis
       /\ n_minor \in 1..MaxSplitPerAxis
       /\ Len(det.rect_infos) = n_major * n_minor
       /\ \A k \in DOMAIN det.rect_infos :
            /\ RatEq(<<det.rect_infos[k].width[1] * n_major, det.rect_infos[k].width[2]>>,
                     det.rect_info.width)
            /\ RatEq(<<det.rect_infos[k].height[1] * n_minor, det.rect_infos[k].height[2]>>,
                     det.rect_info.height)

C25_Witness ==
  /\ Region(500, 10)
  /\ Len(det.rect_infos) = MaxSplitPerAxis
  /\ \A k \in DOMAIN det.rect_infos : RatEq(det.rect_infos[k].width, <<125, 2>>)

\* The sum of a sequence of integers.
SumSeq(s) ==
  LET sum[k \in 0..Len(s)] == IF k = 0 THEN 0 ELSE sum[k - 1] + s[k]
  IN sum[Len(s)]

\* C26: when the splitter returns more than one rectangle, all of them have
\* the original angle and one size, the original width and height divided by
\* whole numbers n_major and n_minor whose product is their count; their
\* centres are distinct, mirror one another through the original centre, and
\* their offsets from it along the major and along the minor axis sum to
\* zero, so the mean of the centres is the original centre.
C26_GridCentred ==
  (SplitDone /\ Len(det.rect_infos) > 1) =>
    LET subs == det.rect_infos
        major == [k \in DOMAIN subs |-> subs[k].off_major]
        minor == [k \in DOMAIN subs |-> subs[k].off_minor]
    IN /\ \A k \in DOMAIN subs :
            /\ subs[k].angle = det.rect_info.angle
            /\ RatEq(subs[k].width, subs[1].width)
            /\ RatEq(subs[k].height, subs[1].height)
            /\ major[k][2] = major[1][2] /\ major[k][2] > 0
            /\ minor[k][2] = minor[1][2] /\ minor[k][2] > 0
       /\ \E n_major, n_minor \in 1..MaxSplitPerAxis :
            /\ n_major * n_minor = Len(subs)
            /\ RatEq(<<subs[1].width[1] * n_major, subs[1].width[2]>>, det.rect_info.width)
            /\ RatEq(<<subs[1].height[1] * n_minor, subs[1].height[2]>>, det.rect_info.height)
       /\ SumSeq([k \in DOMAIN subs |-> major[k][1]]) = 0
       /\ SumSeq([k \in DOMAIN subs |-> minor[k][1]]) = 0
       /\ \A k \in DOMAIN subs :
            \E m \in DOMAIN subs :
              /\ major[m][1] = 0 - major[k][1]
              /\ minor[m][1] = 0 - minor[k][1]
       /\ \A k, m \in DOMAIN subs :
            k # m => (major[k] # major[m] \/ minor[k] # minor[m])

C26_Witness ==
  /\ Region(600, 40)
  /\ Len(det.rect_infos) = 3
  /\ RatEq(det.rect_infos[1].off_major, <<0 - 200, 1>>)
  /\ RatEq(det.rect_infos[2].off_major, <<0, 1>>)
  /\ RatEq(det.rect_infos[3].off_major, <<200, 1>>)
  /\ \A k \in 1..3 : det.rect_infos[k].off_minor[1] = 0 /\ det.rect_infos[k].angle = det.rect_info.angle

\* The long axis of a rectangle has been computed and its sign resolved.
Resolved == det.direction # <<0, 0>>

\* C27 (as stated): the resolved direction has vy <= 0, and when the vector is
\* exactly horizontal it is the one with vx < 0.
C27_TopThenNegativeX ==
  Resolved =>
    /\ det.direction[2] <= 0
    /\ det.direction[2] = 0 => det.direction[1] < 0

\* C27 (amended): the resolved direction is the axis or its opposite; its
\* vertical component is at most eps = 1e-6 (it points toward the top of the
\* image, or is horizontal to within eps), and when the axis is horizontal to
\* within eps the direction chosen is the positive horizontal one (vx > 0).
C27_TopThenPositiveX ==
  Resolved =>
    /\ det.direction \in {det.axis, <<0 - det.axis[1], 0 - det.axis[2]>>}
    /\ det.direction[2] <= AxisEps
    /\ Abs(det.axis[2]) <= AxisEps => det.direction[1] > 0
    /\ det.axis[2] > AxisEps => det.direction[2] < 0

C27_Witness ==
  /\ det.axis = <<0 - UnitLength, 0>>
  /\ det.direction = <<UnitLength, 0>>

\* C28 (as stated): a place or drop that has succeeded after a successful pick
\* has commanded the gripper to an angle other than the one pick closed it with.
C28_ReleaseOpensGripper ==
  (pc = "idle" /\ op = "execute_action" /\ act \in Releases /\ ret.success
     /\ last_done = "release") =>
    \E k \in DOMAIN cmds :
      /\ cmds[k].op = "set_joint"
      /\ cmds[k].args[1] = GripperJoint
      /\ cmds[k].args[2] # PickCloseAngle

\* The blocks of the capture that have a robot-frame anchor point.
RobotAnchored ==
  {i \in DOMAIN det.detected_blocks :
     det.detected_blocks[i].intersection_new_frame_coords # NoPoint}

\* C29 (as stated): every point of the map capture returns is the robot-frame
\* anchor point of a detected block, and a block without one contributes no
\* point: the map has as many points as there are blocks with a robot-frame
\* anchor.
C29_OnlyRobotFrameAnchors ==
  det.pc = "captured" =>
    /\ \A k \in DOMAIN det.coordinates :
         \E i \in RobotAnchored :
           det.coordinates[k] = det.detected_blocks[i].intersection_new_frame_coords
    /\ Len(det.coordinates) = Cardinality(RobotAnchored)

\* The rectangles the splitter returned are narrower (shorter) than the original.
SplitAlongMajor == \E k \in DOMAIN det.rect_infos : RatLess(det.rect_infos[k].width, det.rect_info.width)
SplitAlongMinor == \E k \in DOMAIN det.rect_infos : RatLess(det.rect_infos[k].height, det.rect_info.height)

\* C30: the splitter never splits along both axes: n_major > 1 implies
\* n_minor = 1 and n_minor > 1 implies n_major = 1, so what it returns is one
\* row of at most 8 rectangles, all offset from the centre along one axis only.
C30_OneAxisOnly ==
  SplitDone =>
    /\ NMajor(det.rect_info) > 1 => NMinor(det.rect_info) = 1
    /\ NMinor(det.rect_info) > 1 => NMajor(det.rect_info) = 1
    /\ ~(SplitAlongMajor /\ SplitAlongMinor)
    /\ Len(det.rect_infos) \in 1..MaxSplitPerAxis
    /\ Len(det.rect_infos) = (IF SplitAlongMajor THEN NMajor(det.rect_info)
                              ELSE NMinor(det.rect_info))
    /\ \/ \A k \in DOMAIN det.rect_infos : det.rect_infos[k].off_minor[1] = 0
       \/ \A k \in DOMAIN det.rect_infos : det.rect_infos[k].off_major[1] = 0

C30_Witness ==
  /\ Region(100, 100)
  /\ Len(det.rect_infos) = 3
  /\ SplitAlongMinor /\ ~SplitAlongMajor
  /\ \A k \in 1..3 : /\ det.rect_infos[k].off_major[1] = 0
                     /\ RatEq(det.rect_infos[k].height, <<100, 3>>)

====
